---- MODULE Spec2Model ----
(***************************************************************************)
(* Token-trust subsystem of go-modular-boilerplate: the JWK key manager    *)
(* (internal/shared/jwk), the JWT codec (internal/shared/utils), the auth  *)
(* service and session repository (internal/pkg/auth), the auth middleware *)
(* and the rate limiter (internal/shared/middleware).                      *)
(*                                                                         *)
(* Time is counted in clock ticks; a tick is the resolution of the wall    *)
(* clock as the key manager sees it (time.Now().Format("20060102150405")), *)
(* and an hour is TicksPerHour ticks.                                      *)
(***************************************************************************)
EXTENDS Integers, Sequences, FiniteSets, TLC

VARIABLES
    now,        \* wall clock, in ticks
    files,      \* keys directory: sequence of files, oldest modification first
    keys,       \* JWKKeyManager.keys: keyID -> [mat, active]
    events,     \* fsnotify Create/Write events on *.pem not yet handled
    rot,        \* the goroutine running RotateKey / CleanupExpiredKeys
    nextMat,    \* next fresh RSA key pair rsa.GenerateKey will return
    held,       \* the tokens the caller holds
    users,      \* table users: id -> [is_active, is_disabled, email_verified]
    sessions,   \* table auth_session: id -> row
    nextSid,    \* next session id utils.GetNanoIDWithPrefix returns
    resp,       \* outcome of the last request served
    storage,    \* RateLimitMiddleware.storage: "memory" or "redis"
    store,      \* the counters: InMemoryRateLimiter.data, or the keys in Redis
    mu,         \* InMemoryRateLimiter.mutex: 0, or the goroutine holding it
    calls,      \* the goroutines calling Increment: client -> its call
    mw,         \* RateLimitMiddleware.config and the options of the route
    reqs,       \* the requests in the rate limit middleware: client -> its request
    rot2,       \* a second goroutine running RotateKey on the same key manager
    kmu,        \* the function that holds km.mu for writing, or "none"
    config      \* config.Config as LoadConfig returned it

vars == <<now, files, keys, events, rot, nextMat, held, users, sessions, nextSid, resp,
          storage, store, mu, calls, mw, reqs, rot2, kmu, config>>

gateVars == <<mw, reqs>>

rateVars == <<storage, store, mu, calls>>

authVars == <<users, sessions, nextSid, resp>>

-----------------------------------------------------------------------------
(* Bounds of the model *)

MaxNow == 5          \* the clock stops here
MaxMat == 6          \* rsa.GenerateKey is called at most this often
MaxEvents == 1       \* capacity kept of the watcher's event queue
MaxForeign == 5      \* files that are not keys put into the keys directory
MaxSessions == 2     \* session ids handed out
DirTicks == 2        \* clock ticks left when the shared directory is observed
NumClients == 3      \* goroutines calling Increment
MaxLimit == 2        \* largest MaxAttempts / Limit of a rate limit policy
MaxBurst == 1        \* largest BurstSize of a rate limit policy
MaxRequests == 2     \* requests one client sends through the middleware
NumGate == 2         \* clients sending requests through the middleware
LedgerExpiry == 2    \* latest expiry of the session that exists at the start
Window == 2          \* the window passed to Increment, in clock ticks
TicksPerHour == 2    \* clock ticks in time.Hour

(* Program constants *)

MaxValidJWKKeys == 5
KeyFileExtension == ".pem"
Issuer == "go-boilerplate"

AccessTokenExpiryHour == 1
RefreshTokenExpiryHour == 168
ResetTokenExpiryHour == 4
SessionValidHours == 168

\* the Config of a deployment that sets nothing
DefaultConfig == [RefreshTokenExpiryHour |-> RefreshTokenExpiryHour]

\* the values tried for jwt_refresh_token_expiry_hours
Configs == {[RefreshTokenExpiryHour |-> h] : h \in {24, RefreshTokenExpiryHour, 336}}

Users == {"USR1", "USR2"}
NoSession == 0
GoodUser == [is_active |-> TRUE, is_disabled |-> FALSE, email_verified |-> TRUE]

\* content of a key file that os.WriteFile has created but not yet filled
Partial == 0

-----------------------------------------------------------------------------
(* Maps and sequences *)

EmptyMap == [x \in {} |-> x]

Put(m, k, v) == [x \in (DOMAIN m) \cup {k} |-> IF x = k THEN v ELSE m[x]]

Delete(m, k) == [x \in (DOMAIN m) \ {k} |-> m[x]]

RECURSIVE DeleteAll(_, _)
DeleteAll(m, ks) ==
    IF ks = {} THEN m
    ELSE LET k == CHOOSE x \in ks : TRUE IN DeleteAll(Delete(m, k), ks \ {k})

\* the directory without the file called name
Without(fs, name) == SelectSeq(fs, LAMBDA f : f.name # name)

\* os.WriteFile / create: the file called name now is the most recently modified
WriteFile(fs, name, content) ==
    Append(Without(fs, name), [name |-> name, content |-> content])

KeyFileName(keyID) == [base |-> keyID, ext |-> KeyFileExtension]

HasKeySuffix(name) == name.ext = KeyFileExtension

-----------------------------------------------------------------------------
(* JWKKeyManager *)

\* the loop of loadExistingKeys over the files sorted newest first: fs is
\* sorted oldest first, so the loop runs from index Len(fs) down to 1
RECURSIVE loadLoop(_, _, _)
loadLoop(fs, i, acc) ==
    IF i = 0 THEN acc
    ELSE LET f == fs[i] IN
         IF ~HasKeySuffix(f.name) THEN loadLoop(fs, i - 1, acc)
         ELSE IF f.content = Partial THEN loadLoop(fs, i - 1, acc)
         ELSE loadLoop(fs, i - 1,
                  Put(acc, f.name.base,
                      [mat |-> f.content, active |-> (DOMAIN acc = {})]))

loadExistingKeys(fs) == loadLoop(fs, Len(fs), EmptyMap)

\* the keys GetActiveKey may return (it returns the first active key it
\* meets while ranging over the map)
\* (the empty set: GetActiveKey returns "no active key found")
GetActiveKey == {k \in DOMAIN keys : keys[k].active}

NoKey == [mat |-> Partial, active |-> FALSE]

\* GetKeyByID: the key, or ok = FALSE for "key not found"
GetKeyByID(kid) ==
    IF kid \in DOMAIN keys THEN [ok |-> TRUE, key |-> keys[kid]]
    ELSE [ok |-> FALSE, key |-> NoKey]

\* the orders in which a range over a Go map with key set S can run
RECURSIVE MapOrders(_)
MapOrders(S) ==
    IF S = {} THEN {<<>>}
    ELSE UNION {{<<k>> \o rest : rest \in MapOrders(S \ {k})} : k \in S}

\* GetValidKeys as it would be if it returned the active keys only
GetValidKeysActiveOnly ==
    {[i \in 1..Len(order) |->
         [KeyID |-> order[i], mat |-> keys[order[i]].mat, active |-> TRUE]] :
        order \in MapOrders(GetActiveKey)}

\* GetValidKeys: the slices it may return, every key of the map once, in the
\* order of the range; the KeyID of a JWKKey is the key it is stored under
GetValidKeys ==
    {[i \in 1..Len(order) |->
         [KeyID |-> order[i], mat |-> keys[order[i]].mat,
          active |-> keys[order[i]].active]] :
        order \in MapOrders(DOMAIN keys)}

\* GetJWKS: the documents it may return, one JWK per element of GetValidKeys
\* (n: the modulus of the public key)
GetJWKS ==
    {[i \in 1..Len(validKeys) |->
         [kty |-> "RSA", alg |-> "RS256", use |-> "sig",
          kid |-> validKeys[i].KeyID, n |-> validKeys[i].mat]] :
        validKeys \in GetValidKeys}

Idle == [pc |-> "idle", id |-> 0, mat |-> 0, list |-> <<>>]

\* RotateKey, first half of os.WriteFile: the file exists, truncated
RotateCreate ==
    /\ rot.pc = "idle"
    /\ nextMat <= MaxMat
    /\ rot' = [pc |-> "write", id |-> now, mat |-> nextMat, list |-> <<>>]
    /\ nextMat' = nextMat + 1
    /\ files' = WriteFile(files, KeyFileName(now), Partial)
    /\ events' = IF events < MaxEvents THEN events + 1 ELSE events
    /\ UNCHANGED <<now, keys, held, authVars, rateVars, gateVars, rot2, kmu, config>>

\* RotateKey, second half of os.WriteFile: the PEM data is on disk
RotateWrite ==
    /\ rot.pc = "write"
    /\ files' = WriteFile(files, KeyFileName(rot.id), rot.mat)
    /\ events' = IF events < MaxEvents THEN events + 1 ELSE events
    /\ rot' = [rot EXCEPT !.pc = "insert"]
    /\ UNCHANGED <<now, keys, nextMat, held, authVars, rateVars, gateVars, rot2, kmu, config>>

\* RotateKey as it would be without the loop that deactivates the keys
RotateInsertKeepActive ==
    /\ rot.pc = "insert"
    /\ keys' = Put(keys, rot.id, [mat |-> rot.mat, active |-> TRUE])
    /\ rot' = [rot EXCEPT !.pc = "cleanup"]
    /\ UNCHANGED <<now, files, events, nextMat, held, authVars, rateVars, gateVars, rot2, kmu, config>>

\* RotateKey under km.mu: deactivate every key, store the new one as active
RotateInsert ==
    /\ rot.pc = "insert"
    /\ keys' = Put([k \in DOMAIN keys |-> [keys[k] EXCEPT !.active = FALSE]],
                   rot.id, [mat |-> rot.mat, active |-> TRUE])
    /\ rot' = [rot EXCEPT !.pc = "cleanup"]
    /\ UNCHANGED <<now, files, events, nextMat, held, authVars, rateVars, gateVars, rot2, kmu, config>>

\* CleanupExpiredKeys as it would be if it kept one file more than the maximum
CleanupListKeepOneMore ==
    /\ rot.pc \in {"idle", "cleanup"}
    /\ IF Len(files) <= MaxValidJWKKeys + 1
       THEN rot' = Idle
       ELSE rot' = [Idle EXCEPT !.pc = "remove",
                       !.list = SubSeq(files, 1, Len(files) - MaxValidJWKKeys - 1)]
    /\ UNCHANGED <<now, files, keys, events, nextMat, held, authVars, rateVars, gateVars, rot2, kmu, config>>

\* CleanupExpiredKeys up to the lock: os.ReadDir, the early return, the sort
\* by modification time and filesToRemove.  It runs at the end of RotateKey
\* and on its own (JWKKeyRotationJob.RotateKey calls it again).
CleanupList ==
    /\ rot.pc \in {"idle", "cleanup"}
    /\ IF Len(files) <= MaxValidJWKKeys
       THEN rot' = Idle
       ELSE rot' = [Idle EXCEPT !.pc = "remove",
                       !.list = SubSeq(files, 1, Len(files) - MaxValidJWKKeys)]
    /\ UNCHANGED <<now, files, keys, events, nextMat, held, authVars, rateVars, gateVars, rot2, kmu, config>>

\* the names CleanupExpiredKeys removes: those of filesToRemove with the suffix
ToRemove(list) == {list[i].name : i \in {j \in 1..Len(list) : HasKeySuffix(list[j].name)}}

\* CleanupExpiredKeys as it would be if it removed the files and left the keys
\* in the map
CleanupRemoveFilesOnly ==
    /\ rot.pc = "remove"
    /\ files' = SelectSeq(files, LAMBDA f : f.name \notin ToRemove(rot.list))
    /\ rot' = Idle
    /\ UNCHANGED <<now, keys, events, nextMat, held, authVars, rateVars, gateVars, rot2, kmu, config>>

\* CleanupExpiredKeys under km.mu: delete from the map, remove the file
CleanupRemove ==
    /\ rot.pc = "remove"
    /\ keys' = DeleteAll(keys, {n.base : n \in ToRemove(rot.list)} \cap DOMAIN keys)
    /\ files' = SelectSeq(files, LAMBDA f : f.name \notin ToRemove(rot.list))
    /\ rot' = Idle
    /\ UNCHANGED <<now, events, nextMat, held, authVars, rateVars, gateVars, rot2, kmu, config>>

\* watchFiles: one Create/Write event on a *.pem file reloads the map
watchFiles ==
    /\ events > 0
    /\ events' = events - 1
    /\ keys' = loadExistingKeys(files)
    /\ UNCHANGED <<now, files, rot, nextMat, held, authVars, rateVars, gateVars, rot2, kmu, config>>

\* a second goroutine calls RotateKey on the same key manager while the first
\* may be anywhere in its own call: RotateKey takes km.mu only around the
\* update of the map, so nothing makes the second wait before that
Rotate2Create ==
    /\ rot2.pc = "idle"
    /\ nextMat <= MaxMat
    /\ rot2' = [pc |-> "write", id |-> now, mat |-> nextMat, list |-> <<>>]
    /\ nextMat' = nextMat + 1
    /\ files' = WriteFile(files, KeyFileName(now), Partial)
    /\ events' = IF events < MaxEvents THEN events + 1 ELSE events
    /\ UNCHANGED <<now, keys, rot, held, authVars, rateVars, gateVars, kmu, config>>

Rotate2Write ==
    /\ rot2.pc = "write"
    /\ files' = WriteFile(files, KeyFileName(rot2.id), rot2.mat)
    /\ events' = IF events < MaxEvents THEN events + 1 ELSE events
    /\ rot2' = [rot2 EXCEPT !.pc = "insert"]
    /\ UNCHANGED <<now, keys, rot, nextMat, held, authVars, rateVars, gateVars, kmu, config>>

Rotate2Insert ==
    /\ rot2.pc = "insert"
    /\ keys' = Put([k \in DOMAIN keys |-> [keys[k] EXCEPT !.active = FALSE]],
                   rot2.id, [mat |-> rot2.mat, active |-> TRUE])
    /\ rot2' = [rot2 EXCEPT !.pc = "cleanup"]
    /\ UNCHANGED <<now, files, events, rot, nextMat, held, authVars, rateVars, gateVars, kmu, config>>

\* CleanupExpiredKeys at the end of the second goroutine's RotateKey
Cleanup2List ==
    /\ rot2.pc = "cleanup"
    /\ IF Len(files) <= MaxValidJWKKeys
       THEN rot2' = Idle
       ELSE rot2' = [Idle EXCEPT !.pc = "remove",
                        !.list = SubSeq(files, 1, Len(files) - MaxValidJWKKeys)]
    /\ UNCHANGED <<now, files, keys, events, rot, nextMat, held, authVars, rateVars, gateVars, kmu, config>>

Cleanup2Remove ==
    /\ rot2.pc = "remove"
    /\ keys' = DeleteAll(keys, {n.base : n \in ToRemove(rot2.list)} \cap DOMAIN keys)
    /\ files' = SelectSeq(files, LAMBDA f : f.name \notin ToRemove(rot2.list))
    /\ rot2' = Idle
    /\ UNCHANGED <<now, events, rot, nextMat, held, authVars, rateVars, gateVars, kmu, config>>

\* The key manager with km.mu as a variable: what each function does between
\* km.mu.Lock() and km.mu.Unlock() is a step of its own.

\* watchFiles: an event arrived, km.mu.Lock()
KmWatchLock ==
    /\ events > 0
    /\ kmu = "none"
    /\ events' = events - 1
    /\ kmu' = "watchFiles"
    /\ UNCHANGED <<now, files, keys, rot, nextMat, held, authVars, rateVars, gateVars, rot2, config>>

\* watchFiles with km.mu held: loadExistingKeys reads the directory and the
\* key files, the map it returns is assigned to km.keys, km.mu.Unlock()
KmWatchLoad ==
    /\ kmu = "watchFiles"
    /\ keys' = loadExistingKeys(files)
    /\ kmu' = "none"
    /\ UNCHANGED <<now, files, events, rot, nextMat, held, authVars, rateVars, gateVars, rot2, config>>

\* RotateKey: km.mu.Lock(), the map update, km.mu.Unlock()
KmRotateInsert ==
    /\ kmu = "none"
    /\ RotateInsert

\* CleanupExpiredKeys: files are to be removed, km.mu.Lock()
KmCleanupLock ==
    /\ rot.pc = "remove"
    /\ kmu = "none"
    /\ kmu' = "CleanupExpiredKeys"
    /\ UNCHANGED <<now, files, keys, events, rot, nextMat, held, authVars, rateVars, gateVars, rot2, config>>

\* CleanupExpiredKeys with km.mu held: delete from the map and os.Remove for
\* each file, then the deferred km.mu.Unlock()
KmCleanupRemove ==
    /\ kmu = "CleanupExpiredKeys"
    /\ keys' = DeleteAll(keys, {n.base : n \in ToRemove(rot.list)} \cap DOMAIN keys)
    /\ files' = SelectSeq(files, LAMBDA f : f.name \notin ToRemove(rot.list))
    /\ rot' = Idle
    /\ kmu' = "none"
    /\ UNCHANGED <<now, events, nextMat, held, authVars, rateVars, gateVars, rot2, config>>

\* another program puts a file that is not a key into the keys directory
ForeignWrite ==
    /\ \E n \in 1..MaxForeign :
          /\ \A i \in 1..Len(files) : files[i].name # [base |-> n, ext |-> ".tmp"]
          /\ \A m \in 1..(n - 1) :
                \E i \in 1..Len(files) : files[i].name = [base |-> m, ext |-> ".tmp"]
          /\ files' = WriteFile(files, [base |-> n, ext |-> ".tmp"], Partial)
    /\ UNCHANGED <<now, keys, events, rot, nextMat, held, authVars, rateVars, gateVars, rot2, kmu, config>>

Tick ==
    /\ now < MaxNow
    /\ now' = now + 1
    /\ UNCHANGED <<files, keys, events, rot, nextMat, held, authVars, rateVars, gateVars, rot2, kmu, config>>

-----------------------------------------------------------------------------
(* JWTUtils *)

NoRow == [user_id |-> "", is_active |-> FALSE, created_at |-> -1, last_used_at |-> -1,
          expires_at |-> -1]

\* what the caller of a request sees, with what the request was about: typ,
\* the token_type of the token presented, and row, the session row it names
NoResp == [op |-> "none", err |-> "none", typ |-> "", row |-> NoRow, out |-> {}, next |-> FALSE]

NoClaims == [typ |-> "", uid |-> "", sid |-> NoSession]

NoToken == [kid |-> -1, sig |-> 0, alg |-> "", typ |-> "", uid |-> "",
            sid |-> NoSession, iat |-> 0, exp |-> 0, iss |-> ""]

\* a token as EncryptClaims would sign it if it ignored the token_type claim
SignedTokenFixedType(k, claims, expiresInHour) ==
    [kid |-> k, sig |-> keys[k].mat, alg |-> "RS256",
     typ |-> "auth_token", uid |-> claims.uid, sid |-> claims.sid,
     iat |-> now, exp |-> now + expiresInHour * TicksPerHour, iss |-> Issuer]

\* EncryptClaims: the token signed with the active key k
SignedToken(k, claims, expiresInHour) ==
    [kid |-> k, sig |-> keys[k].mat, alg |-> "RS256",
     typ |-> claims.typ, uid |-> claims.uid, sid |-> claims.sid,
     iat |-> now, exp |-> now + expiresInHour * TicksPerHour, iss |-> Issuer]

\* EncryptClaims as it would be if it fell back to an unsigned token
EncryptClaimsUnsigned(claims, expiresInHour) ==
    IF GetActiveKey = {}
    THEN {[err |-> "none",
           token |-> [NoToken EXCEPT !.alg = "none", !.typ = claims.typ,
                                     !.uid = claims.uid, !.sid = claims.sid]]}
    ELSE {[err |-> "none", token |-> SignedToken(k, claims, expiresInHour)] :
             k \in GetActiveKey}

\* the results EncryptClaims may return
EncryptClaims(claims, expiresInHour) ==
    IF GetActiveKey = {}
    THEN {[err |-> "failed to get signing key", token |-> NoToken]}
    ELSE {[err |-> "none", token |-> SignedToken(k, claims, expiresInHour)] :
             k \in GetActiveKey}

\* the header algorithms for which token.Method is a *jwt.SigningMethodRSA
SigningMethodRSA == {"RS256", "RS384", "RS512"}

\* a kid header that is absent or is not a string
MissingKeyID == -2

\* an iss claim that is absent or is not a string
NoIssuer == "<absent>"

\* DecryptClaims as it would be without the comparison of iss with the
\* configured issuer
DecryptClaimsAnyIssuer(t) ==
    IF t.alg \notin SigningMethodRSA THEN [err |-> "unexpected signing method", claims |-> NoClaims]
    ELSE IF t.kid = MissingKeyID THEN [err |-> "missing key ID in token header", claims |-> NoClaims]
    ELSE IF ~GetKeyByID(t.kid).ok THEN [err |-> "invalid key ID", claims |-> NoClaims]
    ELSE IF GetKeyByID(t.kid).key.mat # t.sig THEN [err |-> "signature is invalid", claims |-> NoClaims]
    ELSE IF ~(now < t.exp) THEN [err |-> "token is expired", claims |-> NoClaims]
    ELSE IF now > t.exp THEN [err |-> "token has expired", claims |-> NoClaims]
    ELSE [err |-> "none", claims |-> [typ |-> t.typ, uid |-> t.uid, sid |-> t.sid]]

\* DecryptClaims as it would be with a key function that looks the key up
\* whatever the signing method of the header
DecryptClaimsAnyMethod(t) ==
    IF t.kid = MissingKeyID THEN [err |-> "missing key ID in token header", claims |-> NoClaims]
    ELSE IF ~GetKeyByID(t.kid).ok THEN [err |-> "invalid key ID", claims |-> NoClaims]
    ELSE IF GetKeyByID(t.kid).key.mat # t.sig THEN [err |-> "signature is invalid", claims |-> NoClaims]
    ELSE IF ~(now < t.exp) THEN [err |-> "token is expired", claims |-> NoClaims]
    ELSE IF now > t.exp THEN [err |-> "token has expired", claims |-> NoClaims]
    ELSE IF t.iss # Issuer THEN [err |-> "invalid token issuer", claims |-> NoClaims]
    ELSE [err |-> "none", claims |-> [typ |-> t.typ, uid |-> t.uid, sid |-> t.sid]]

\* DecryptClaims as it would be with its own expiry check alone, the parser
\* not validating the registered claims
DecryptClaimsOwnExpiry(t) ==
    IF t.alg \notin SigningMethodRSA THEN [err |-> "unexpected signing method", claims |-> NoClaims]
    ELSE IF t.kid = MissingKeyID THEN [err |-> "missing key ID in token header", claims |-> NoClaims]
    ELSE IF ~GetKeyByID(t.kid).ok THEN [err |-> "invalid key ID", claims |-> NoClaims]
    ELSE IF GetKeyByID(t.kid).key.mat # t.sig THEN [err |-> "signature is invalid", claims |-> NoClaims]
    ELSE IF now > t.exp THEN [err |-> "token has expired", claims |-> NoClaims]
    ELSE IF t.iss # Issuer THEN [err |-> "invalid token issuer", claims |-> NoClaims]
    ELSE [err |-> "none", claims |-> [typ |-> t.typ, uid |-> t.uid, sid |-> t.sid]]

\* DecryptClaims: jwt.Parse with the key function (signing method, kid, key
\* lookup), the signature, the registered claims, then exp and iss again
DecryptClaims(t) ==
    IF t.alg \notin SigningMethodRSA THEN [err |-> "unexpected signing method", claims |-> NoClaims]
    ELSE IF t.kid = MissingKeyID THEN [err |-> "missing key ID in token header", claims |-> NoClaims]
    ELSE IF ~GetKeyByID(t.kid).ok THEN [err |-> "invalid key ID", claims |-> NoClaims]
    ELSE IF GetKeyByID(t.kid).key.mat # t.sig THEN [err |-> "signature is invalid", claims |-> NoClaims]
    ELSE IF ~(now < t.exp) THEN [err |-> "token is expired", claims |-> NoClaims]
    ELSE IF now > t.exp THEN [err |-> "token has expired", claims |-> NoClaims]
    ELSE IF t.iss # Issuer THEN [err |-> "invalid token issuer", claims |-> NoClaims]
    ELSE [err |-> "none", claims |-> [typ |-> t.typ, uid |-> t.uid, sid |-> t.sid]]

\* GenerateTokenWithType(user, "auth_token", AccessTokenExpiryHour)
GenerateAccessToken(uid) ==
    EncryptClaims([typ |-> "auth_token", uid |-> uid, sid |-> NoSession],
                  AccessTokenExpiryHour)

\* GenerateRefreshToken(sessionID, userID, vendorID)
GenerateRefreshToken(sid, uid) ==
    EncryptClaims([typ |-> "refresh_token", uid |-> uid, sid |-> sid],
                  config.RefreshTokenExpiryHour)

\* the token RequestPasswordReset creates
GenerateResetToken(uid) ==
    EncryptClaims([typ |-> "reset_password", uid |-> uid, sid |-> NoSession],
                  ResetTokenExpiryHour)

\* a caller of the codec asks for a token and keeps what it gets
Issue ==
    /\ \E uid \in Users :
         \E r \in GenerateAccessToken(uid) \cup GenerateResetToken(uid) :
            held' = IF r.err = "none" THEN {r.token} ELSE held
    /\ UNCHANGED <<now, files, keys, events, rot, nextMat, authVars, rateVars, gateVars, rot2, kmu, config>>

-----------------------------------------------------------------------------
(* DefaultAuthService, sqlcAuthRepository, AuthMiddleware *)

\* GenerateTokenPair: the access token, then the refresh token
GenerateTokenPair(uid, sid) ==
    {IF a.err # "none" THEN [err |-> "failed to generate access token", out |-> {}]
     ELSE IF r.err # "none" THEN [err |-> "failed to generate refresh token", out |-> {}]
     ELSE [err |-> "none", out |-> {a.token, r.token}] :
        a \in GenerateAccessToken(uid), r \in GenerateRefreshToken(sid, uid)}

\* FindUserByEmail as it would be if the query selected inactive users too
FindUserByEmailAnyUser(email) ==
    IF email \in DOMAIN users
    THEN [found |-> TRUE, user |-> users[email]]
    ELSE [found |-> FALSE, user |-> GoodUser]

\* FindUserByEmail: the query selects active users only
FindUserByEmail(email) ==
    IF email \in DOMAIN users /\ users[email].is_active
    THEN [found |-> TRUE, user |-> users[email]]
    ELSE [found |-> FALSE, user |-> GoodUser]

\* deviceInfo.Fingerprint of the device every login comes from
LoginFingerprint == "fpA"

\* the auth.Session Login builds for the session of user uid
NewSession(uid) ==
    [UserID |-> uid, IsActive |-> TRUE, CreatedAt |-> now,
     ValidTill |-> now + SessionValidHours * TicksPerHour,
     DeviceFingerprint |-> LoginFingerprint]

\* CreateSession: the row CreateAuthSession inserts for a session; its
\* parameters are the id, the user, the token hash, the address, the device
\* name, the user agent and ExpiresAt, the fingerprint is not among them;
\* is_active, created_at and last_used_at are the defaults of the table
CreateAuthSession(session) ==
    [user_id |-> session.UserID, is_active |-> TRUE, created_at |-> now,
     last_used_at |-> now, expires_at |-> session.ValidTill]

\* the row CreateAuthSession inserts for Login's session
NewSessionRow(uid) == CreateAuthSession(NewSession(uid))

\* a *time.Time that is nil
NoTime == -1

\* convertSqlcSession: the Session built from a row; the row has neither a
\* fingerprint nor a revoked_at, so DeviceFingerprint is the empty string and
\* RevokedAt stays nil
convertSqlcSession(sid) ==
    [ID |-> sid, UserID |-> sessions[sid].user_id, IsActive |-> sessions[sid].is_active,
     ValidTill |-> sessions[sid].expires_at, DeviceFingerprint |-> "",
     RevokedAt |-> NoTime]

NoSess == [ID |-> NoSession, UserID |-> "", IsActive |-> FALSE, ValidTill |-> -1,
           DeviceFingerprint |-> "", RevokedAt |-> NoTime]

Reply(op, err) == [NoResp EXCEPT !.op = op, !.err = err]

\* Login(req, ipAddress, deviceInfo), what it does to the session table and
\* what it answers; dbok: CreateAuthSession succeeds
LoginBody ==
    /\ nextSid <= MaxSessions
    /\ \E email \in Users \cup {"nobody"}, pwok \in BOOLEAN, dbok \in BOOLEAN :
         LET user == FindUserByEmail(email).user IN
         IF ~FindUserByEmail(email).found THEN
            /\ resp' = Reply("login", "invalid credentials")
            /\ UNCHANGED <<held, sessions, nextSid>>
         ELSE IF user.is_disabled THEN
            /\ resp' = Reply("login", "invalid credentials")
            /\ UNCHANGED <<held, sessions, nextSid>>
         ELSE IF ~user.email_verified THEN
            /\ resp' = Reply("login", "email not verified")
            /\ UNCHANGED <<held, sessions, nextSid>>
         ELSE IF ~pwok THEN
            /\ resp' = Reply("login", "invalid credentials")
            /\ UNCHANGED <<held, sessions, nextSid>>
         ELSE
            \E pair \in GenerateTokenPair(email, nextSid) :
               /\ nextSid' = nextSid + 1
               /\ IF pair.err # "none" THEN
                     /\ resp' = Reply("login", pair.err)
                     /\ UNCHANGED <<held, sessions>>
                  ELSE
                     /\ sessions' = IF dbok THEN Put(sessions, nextSid, NewSessionRow(email))
                                    ELSE sessions
                     /\ resp' = [Reply("login", "none") EXCEPT !.out = pair.out]
                     /\ held' = pair.out

\* a call of Login that did not come through the rate limit middleware
Login ==
    /\ LoginBody
    /\ UNCHANGED <<now, files, keys, events, rot, nextMat, users, rateVars, gateVars, rot2, kmu, config>>

\* UpdateAuthSessionLastUsed as it would be if it wrote the whole row of a
\* session in use, active flag included
UpdateAuthSessionLastUsedWholeRow(sid) ==
    [sessions EXCEPT ![sid].last_used_at = now, ![sid].is_active = TRUE]

\* UpdateSessionLastUsed: UPDATE auth_session SET last_used_at = NOW()
\* WHERE id = sid
UpdateAuthSessionLastUsed(sid) ==
    [sessions EXCEPT ![sid].last_used_at = now]

\* RevokeSession as it would be if it ran DeactivateUserSessions for the user
\* of the session
DeactivateUserSessions(table, sid) ==
    [s \in DOMAIN table |->
        IF table[s].user_id = table[sid].user_id
        THEN [table[s] EXCEPT !.is_active = FALSE] ELSE table[s]]

\* RevokeSession: UPDATE auth_session SET is_active = FALSE WHERE id = sid
DeactivateAuthSession(table, sid) ==
    [s \in DOMAIN table |->
        IF s = sid THEN [table[s] EXCEPT !.is_active = FALSE] ELSE table[s]]

\* a kid that names no key file
NoKeyID == -1

\* the tokens a caller can hand to DecryptClaims: any header, a signature
\* that is the one of key material 1 or none, any issuer, two expiry times
ParsedTokens ==
    [kid : {0, NoKeyID, MissingKeyID}, sig : {1, Partial},
     alg : {"RS256", "RS384", "HS256", "none"},
     typ : {"auth_token"}, uid : {"USR1"}, sid : {NoSession}, iat : {0},
     exp : {1, 3}, iss : {Issuer, "someone-else", NoIssuer}]

\* a caller hands the token it holds to DecryptClaims
Verify ==
    /\ \E t \in held :
         resp' = [Reply("verify", DecryptClaims(t).err) EXCEPT !.typ = DecryptClaims(t).claims.typ]
    /\ UNCHANGED <<now, files, keys, events, rot, nextMat, held, users, sessions, nextSid, rateVars, gateVars, rot2, kmu, config>>

\* what a caller can make of a token it holds without a private key: the kid
\* of the header changed, the signature replaced, the iss claim changed, or
\* something that is no JWT at all (jwt.Parse fails before any key lookup)
UnknownKeyID(t) == [t EXCEPT !.kid = NoKeyID]

ForgedSignature(t) == [t EXCEPT !.sig = Partial]

WrongIssuer(t) == [t EXCEPT !.iss = "someone-else"]

Malformed(t) == NoToken

Tampered(t) == {UnknownKeyID(t), ForgedSignature(t), WrongIssuer(t), Malformed(t)}

\* the tokens a caller without a private key can present beside its own
Presented == UNION {Tampered(t) : t \in held}

\* ValidateRefreshToken as it would be without the check of token_type
ValidateRefreshTokenAnyType(t) ==
    IF DecryptClaims(t).err # "none"
    THEN [err |-> "invalid refresh token", session |-> NoSess]
    ELSE IF DecryptClaims(t).claims.sid = NoSession
    THEN [err |-> "invalid refresh token", session |-> NoSess]
    ELSE IF DecryptClaims(t).claims.sid \notin DOMAIN sessions
    THEN [err |-> "session not found", session |-> NoSess]
    ELSE IF now > sessions[DecryptClaims(t).claims.sid].expires_at
    THEN [err |-> "refresh token expired", session |-> NoSess]
    ELSE [err |-> "none", session |-> convertSqlcSession(DecryptClaims(t).claims.sid)]

\* ValidateRefreshToken as it would be without the check of ValidTill
ValidateRefreshTokenNoValidTill(t) ==
    IF DecryptClaims(t).err # "none"
    THEN [err |-> "invalid refresh token", session |-> NoSess]
    ELSE IF DecryptClaims(t).claims.typ # "refresh_token"
    THEN [err |-> "invalid refresh token", session |-> NoSess]
    ELSE IF DecryptClaims(t).claims.sid = NoSession
    THEN [err |-> "invalid refresh token", session |-> NoSess]
    ELSE IF DecryptClaims(t).claims.sid \notin DOMAIN sessions
    THEN [err |-> "session not found", session |-> NoSess]
    ELSE [err |-> "none", session |-> convertSqlcSession(DecryptClaims(t).claims.sid)]

\* ValidateRefreshToken: the Session, or the error
ValidateRefreshToken(t) ==
    IF DecryptClaims(t).err # "none"
    THEN [err |-> "invalid refresh token", session |-> NoSess]
    ELSE IF DecryptClaims(t).claims.typ # "refresh_token"
    THEN [err |-> "invalid refresh token", session |-> NoSess]
    ELSE IF DecryptClaims(t).claims.sid = NoSession
    THEN [err |-> "invalid refresh token", session |-> NoSess]
    ELSE IF DecryptClaims(t).claims.sid \notin DOMAIN sessions
    THEN [err |-> "session not found", session |-> NoSess]
    ELSE IF now > sessions[DecryptClaims(t).claims.sid].expires_at
    THEN [err |-> "refresh token expired", session |-> NoSess]
    ELSE [err |-> "none", session |-> convertSqlcSession(DecryptClaims(t).claims.sid)]

\* deviceInfo.Fingerprint of a refresh: none, the device of the login, another
Fingerprints == {"", LoginFingerprint, "fpB"}

\* RefreshToken as it would be if it called UpdateSessionLastUsed as soon as
\* the session is validated, before it looks at the user
RefreshTokenTouchFirst(t, fp) ==
    /\ \E dbok \in BOOLEAN :
         LET v == ValidateRefreshToken(t)
             seen == IF t.sid \in DOMAIN sessions THEN sessions[t.sid] ELSE NoRow
             fail(e) == /\ resp' = [Reply("refresh", e) EXCEPT !.typ = t.typ, !.row = seen]
                        /\ held' = held
                        /\ sessions' = IF v.err = "none" /\ dbok
                                       THEN UpdateAuthSessionLastUsed(v.session.ID)
                                       ELSE sessions
         IN
         IF v.err # "none" THEN fail(v.err)
         ELSE IF fp # "" /\ v.session.DeviceFingerprint # ""
                 /\ fp # v.session.DeviceFingerprint THEN fail("invalid refresh token")
         ELSE IF v.session.UserID \notin DOMAIN users THEN fail("user not found")
         ELSE IF ~users[v.session.UserID].is_active \/ users[v.session.UserID].is_disabled
              THEN fail("invalid credentials")
         ELSE IF ~users[v.session.UserID].email_verified THEN fail("email not verified")
         ELSE \E a \in GenerateAccessToken(v.session.UserID) :
              IF a.err # "none" THEN fail("failed to generate access token")
              ELSE IF ~dbok THEN fail("failed to update session last used")
              ELSE /\ sessions' = UpdateAuthSessionLastUsed(v.session.ID)
                   /\ resp' = [Reply("refresh", "none") EXCEPT
                                  !.typ = t.typ, !.row = seen, !.out = {a.token}]
                   /\ held' = {h \in held : h.typ # "auth_token"} \cup {a.token}
    /\ UNCHANGED <<now, files, keys, events, rot, nextMat, users, nextSid, rateVars, gateVars, rot2, kmu, config>>

\* RefreshToken(req, ipAddress, deviceInfo) with req.RefreshToken = t and
\* deviceInfo.Fingerprint = fp; dbok: UpdateAuthSessionLastUsed succeeds
RefreshTokenOf(t, fp) ==
    /\ \E dbok \in BOOLEAN :
         LET v == ValidateRefreshToken(t)
             seen == IF t.sid \in DOMAIN sessions THEN sessions[t.sid] ELSE NoRow
             fail(e) == /\ resp' = [Reply("refresh", e) EXCEPT !.typ = t.typ, !.row = seen]
                        /\ UNCHANGED <<held, sessions>>
         IN
         IF v.err # "none" THEN fail(v.err)
         ELSE IF fp # "" /\ v.session.DeviceFingerprint # ""
                 /\ fp # v.session.DeviceFingerprint THEN fail("invalid refresh token")
         ELSE IF v.session.UserID \notin DOMAIN users THEN fail("user not found")
         ELSE IF ~users[v.session.UserID].is_active \/ users[v.session.UserID].is_disabled
              THEN fail("invalid credentials")
         ELSE IF ~users[v.session.UserID].email_verified THEN fail("email not verified")
         ELSE \E a \in GenerateAccessToken(v.session.UserID) :
              IF a.err # "none" THEN fail("failed to generate access token")
              ELSE IF ~dbok THEN fail("failed to update session last used")
              ELSE /\ sessions' = UpdateAuthSessionLastUsed(v.session.ID)
                   /\ resp' = [Reply("refresh", "none") EXCEPT
                                  !.typ = t.typ, !.row = seen, !.out = {a.token}]
                   /\ held' = {h \in held : h.typ # "auth_token"} \cup {a.token}
    /\ UNCHANGED <<now, files, keys, events, rot, nextMat, users, nextSid, rateVars, gateVars, rot2, kmu, config>>

\* a refresh from the device of fingerprint fp with a token the caller holds
RefreshTokenFrom(fp) == \E t \in held : RefreshTokenOf(t, fp)

\* a refresh from any device
RefreshToken == \E fp \in Fingerprints : RefreshTokenFrom(fp)

\* RevokeRefreshToken(sessionID): RevokeSession runs DeactivateAuthSession
RevokeRefreshToken ==
    /\ \E sid \in DOMAIN sessions :
         /\ sessions' = DeactivateAuthSession(sessions, sid)
         /\ resp' = Reply("revoke", "none")
    /\ UNCHANGED <<now, files, keys, events, rot, nextMat, held, users, nextSid, rateVars, gateVars, rot2, kmu, config>>

\* ChangePassword(userID, req): FindUserByID, then the current password is
\* compared (pwok); the new password is hashed and the hash dropped, no row of
\* any table is written
ChangePassword(u) ==
    /\ \E pwok \in BOOLEAN :
         resp' = IF u \notin DOMAIN users THEN Reply("change_password", "user not found")
                 ELSE IF ~pwok THEN Reply("change_password", "invalid credentials")
                 ELSE Reply("change_password", "none")
    /\ UNCHANGED <<now, files, keys, events, rot, nextMat, held, users, sessions, nextSid, rateVars, gateVars, rot2, kmu, config>>

\* ResetPassword(req) with req.Token one of the tokens held: DecryptClaims,
\* token_type, user_id, FindUserByID, the state of the user; the new password
\* is hashed and the hash dropped, no row of any table is written
ResetPassword ==
    /\ \E t \in held :
         LET d == DecryptClaims(t) IN
         resp' = [Reply("reset_password",
                        IF d.err # "none" THEN "Invalid or expired reset token"
                        ELSE IF d.claims.typ # "reset_password" THEN "Invalid token type"
                        ELSE IF d.claims.uid \notin DOMAIN users THEN "user not found"
                        ELSE IF ~users[d.claims.uid].is_active \/ users[d.claims.uid].is_disabled
                             THEN "Account is not active"
                        ELSE "none") EXCEPT !.typ = t.typ]
    /\ UNCHANGED <<now, files, keys, events, rot, nextMat, held, users, sessions, nextSid, rateVars, gateVars, rot2, kmu, config>>

\* validly signed tokens of every token_type, with and without a session_id:
\* session 1 is in the table, session 2 is not
TypedTokens ==
    [kid : {0}, sig : {1}, alg : {"RS256"},
     typ : {"auth_token", "refresh_token", "reset_password", ""},
     uid : {"USR1"}, sid : {NoSession, 1, 2}, iat : {0}, exp : {1, 3},
     iss : {Issuer}]

\* ExampleCleanupJob.cleanupOldSessions, the periodic job on sessions: its
\* statement is UPDATE sessions SET is_active = FALSE WHERE created_at < $1,
\* thirty days back, on a table named sessions; the schema has auth_session
\* and no table sessions, so no row of auth_session is written whether the
\* statement fails or finds such a table.  DeactivateExpiredSessions, the
\* query on auth_session, has no caller.
cleanupOldSessions ==
    /\ \E tableExists \in BOOLEAN :
         resp' = IF tableExists THEN Reply("cleanup", "none")
                 ELSE Reply("cleanup", "delete old sessions")
    /\ UNCHANGED <<now, files, keys, events, rot, nextMat, held, users, sessions, nextSid, rateVars, gateVars, rot2, kmu, config>>

\* GinAuthenticate as it would be if it passed the error of DecryptClaims on
\* to the client
GinAuthenticateReplyWithCause(t) ==
    IF DecryptClaims(t).err # "none"
    THEN [status |-> 401, message |-> DecryptClaims(t).err, next |-> FALSE]
    ELSE IF DecryptClaims(t).claims.uid = ""
    THEN [status |-> 401, message |-> "Invalid user ID in token", next |-> FALSE]
    ELSE [status |-> 200, message |-> "none", next |-> TRUE]

\* what GinAuthenticate answers to "Bearer <t>": GinUnauthorized with a
\* message and c.Abort(), or c.Next() and the answer of the handler
GinAuthenticateReply(t) ==
    IF DecryptClaims(t).err # "none"
    THEN [status |-> 401, message |-> "Invalid or expired token", next |-> FALSE]
    ELSE IF DecryptClaims(t).claims.uid = ""
    THEN [status |-> 401, message |-> "Invalid user ID in token", next |-> FALSE]
    ELSE [status |-> 200, message |-> "none", next |-> TRUE]

\* GinAuthenticate in front of a protected route, the caller presenting
\* "Bearer <t>" with t one of tokens; next: c.Next() was called, the
\* protected handler ran
GinAuthenticateOf(tokens) ==
    /\ \E t \in tokens :
         resp' = [Reply("authenticate", GinAuthenticateReply(t).message) EXCEPT
                     !.typ = t.typ, !.next = GinAuthenticateReply(t).next]
    /\ UNCHANGED <<now, files, keys, events, rot, nextMat, held, users, sessions, nextSid, rateVars, gateVars, rot2, kmu, config>>

\* a request with a token the caller was issued
GinAuthenticate == GinAuthenticateOf(held)

\* a request with a token the caller has made up from one it was issued
GinAuthenticateTampered == GinAuthenticateOf(Presented)

-----------------------------------------------------------------------------
(* RateLimiterStorage: InMemoryRateLimiter and RedisRateLimiter *)

Clients == 1..NumClients

\* the key the calls count on
RateKey == "login:ip"

NoEntry == [count |-> 0, expiresAt |-> -1]

NoCall == [pc |-> "idle", at |-> -1, exists |-> FALSE, entry |-> NoEntry,
           ret |-> 0, err |-> FALSE]

\* InMemoryRateLimiter.Increment as it would be without the mutex
MemIncrementNoLock(c) ==
    /\ storage = "memory"
    /\ calls[c].pc = "idle"
    /\ mu' = c
    /\ calls' = [calls EXCEPT ![c].pc = "locked"]
    /\ UNCHANGED <<now, files, keys, events, rot, nextMat, held, authVars, storage, store, gateVars, rot2, kmu, config>>

\* InMemoryRateLimiter.Increment: m.mutex.Lock()
MemIncrementLock(c) ==
    /\ storage = "memory"
    /\ calls[c].pc = "idle"
    /\ mu = 0
    /\ mu' = c
    /\ calls' = [calls EXCEPT ![c].pc = "locked"]
    /\ UNCHANGED <<now, files, keys, events, rot, nextMat, held, authVars, storage, store, gateVars, rot2, kmu, config>>

\* InMemoryRateLimiter.Increment: now := time.Now(); entry, exists := m.data[key]
MemIncrementLoad(c) ==
    /\ calls[c].pc = "locked"
    /\ calls' = [calls EXCEPT ![c].pc = "loaded", ![c].at = now,
                              ![c].exists = (RateKey \in DOMAIN store),
                              ![c].entry = IF RateKey \in DOMAIN store
                                           THEN store[RateKey] ELSE NoEntry]
    /\ UNCHANGED <<now, files, keys, events, rot, nextMat, held, authVars, storage, store, mu, gateVars, rot2, kmu, config>>

\* InMemoryRateLimiter.Increment: the new entry with count 1, or entry.count++
MemIncrementStore(c) ==
    /\ calls[c].pc = "loaded"
    /\ IF ~calls[c].exists \/ calls[c].at > calls[c].entry.expiresAt
       THEN /\ store' = Put(store, RateKey,
                            [count |-> 1, expiresAt |-> calls[c].at + Window])
            /\ calls' = [calls EXCEPT ![c].pc = "stored", ![c].ret = 1]
       ELSE /\ store' = Put(store, RateKey,
                            [calls[c].entry EXCEPT !.count = calls[c].entry.count + 1])
            /\ calls' = [calls EXCEPT ![c].pc = "stored",
                                      ![c].ret = calls[c].entry.count + 1]
    /\ UNCHANGED <<now, files, keys, events, rot, nextMat, held, authVars, storage, mu, gateVars, rot2, kmu, config>>

\* InMemoryRateLimiter.Increment: the deferred m.mutex.Unlock() and the return
MemIncrementUnlock(c) ==
    /\ calls[c].pc = "stored"
    /\ mu' = 0
    /\ calls' = [calls EXCEPT ![c].pc = "done"]
    /\ UNCHANGED <<now, files, keys, events, rot, nextMat, held, authVars, storage, store, gateVars, rot2, kmu, config>>

\* RedisRateLimiter.Increment: INCR and EXPIRE in one MULTI/EXEC transaction;
\* a key past its expiry is gone; ok: Exec reached the server and succeeded
RedisIncrement(c) ==
    /\ storage = "redis"
    /\ calls[c].pc = "idle"
    /\ \E ok \in BOOLEAN :
          IF ok
          THEN LET live  == RateKey \in DOMAIN store /\ now < store[RateKey].expiresAt
                   count == IF live THEN store[RateKey].count + 1 ELSE 1
               IN /\ store' = Put(store, RateKey,
                                  [count |-> count, expiresAt |-> now + Window])
                  /\ calls' = [calls EXCEPT ![c].pc = "done", ![c].at = now,
                                            ![c].ret = count]
          ELSE /\ calls' = [calls EXCEPT ![c].pc = "done", ![c].at = now,
                                         ![c].err = TRUE]
               /\ UNCHANGED store
    /\ UNCHANGED <<now, files, keys, events, rot, nextMat, held, authVars, storage, mu, gateVars, rot2, kmu, config>>

\* InMemoryRateLimiter.cleanup as it would be without m.mutex.Lock()
cleanupNoLock ==
    /\ storage = "memory"
    /\ RateKey \in DOMAIN store
    /\ now > store[RateKey].expiresAt
    /\ store' = Delete(store, RateKey)
    /\ UNCHANGED <<now, files, keys, events, rot, nextMat, held, authVars, storage, mu, calls, gateVars, rot2, kmu, config>>

\* InMemoryRateLimiter.cleanup: one pass of the ticker, deleting under the
\* mutex the entries past their expiry
cleanup ==
    /\ storage = "memory"
    /\ mu = 0
    /\ RateKey \in DOMAIN store
    /\ now > store[RateKey].expiresAt
    /\ store' = Delete(store, RateKey)
    /\ UNCHANGED <<now, files, keys, events, rot, nextMat, held, authVars, storage, mu, calls, gateVars, rot2, kmu, config>>

-----------------------------------------------------------------------------
(* RateLimitMiddleware in front of the auth routes *)

\* the values tried for MaxAttempts / Limit and for BurstSize
Limits == 1..MaxLimit

Bursts == 0..MaxBurst

\* DefaultRateLimitConfig, which the server passes to NewRateLimitMiddleware,
\* with MaxAttempts and BurstSize scaled into Limits and Bursts; route
\* "config": GinRateLimit, no options
DefaultRateLimitConfig ==
    [route |-> "config", MaxAttempts |-> MaxLimit, BurstSize |-> MaxBurst,
     SkipSuccessfulRequests |-> FALSE, Limit |-> 0, OptBurstSize |-> 0]

\* the middlewares that can stand in front of a route: GinRateLimit with a
\* config, or GinRateLimitWithOptions with a config and options
Middlewares ==
    {[route |-> "config", MaxAttempts |-> l, BurstSize |-> b,
      SkipSuccessfulRequests |-> s, Limit |-> 0, OptBurstSize |-> 0] :
        l \in Limits, b \in Bursts, s \in BOOLEAN}
    \cup
    {[route |-> "options", MaxAttempts |-> MaxLimit, BurstSize |-> b,
      SkipSuccessfulRequests |-> s, Limit |-> l, OptBurstSize |-> ob] :
        l \in Limits, b \in Bursts, ob \in Bursts, s \in BOOLEAN}

\* the clients that send requests through the middleware
GateClients == 1..NumGate

NoRequest == [pc |-> "idle", n |-> 0, count |-> 0, failed |-> FALSE,
              status |-> 0, ran |-> FALSE]

\* the effective limit as it would be without the burst allowance
effectiveLimitNoBurst ==
    IF mw.route = "config" THEN mw.MaxAttempts ELSE mw.Limit

\* the effective limit GinRateLimit and GinRateLimitWithOptions compute
effectiveLimit ==
    IF mw.route = "config"
    THEN IF mw.BurstSize > 0 THEN mw.MaxAttempts + mw.BurstSize ELSE mw.MaxAttempts
    ELSE IF mw.OptBurstSize > 0 THEN mw.Limit + mw.OptBurstSize
    ELSE IF mw.BurstSize > 0 THEN mw.Limit + mw.BurstSize
    ELSE mw.Limit

\* GinHandleServiceError: the status code of the error a service returned
StatusCode(err) ==
    IF err = "none" THEN 200
    ELSE IF err \in {"invalid credentials", "invalid refresh token",
                     "refresh token expired"} THEN 401
    ELSE IF err = "email not verified" THEN 403
    ELSE 500

\* handleRateLimitExceeded as it would be without c.Abort(): the handlers
\* after the middleware still run
GinRateLimitCheckNoAbort(c) ==
    /\ reqs[c].pc = "idle"
    /\ calls[c].pc = "done"
    /\ reqs' = [reqs EXCEPT ![c] =
                   [@ EXCEPT !.pc = "next", !.n = @ + 1, !.count = calls[c].ret,
                             !.failed = calls[c].err,
                             !.status = IF ~calls[c].err /\ calls[c].ret > effectiveLimit
                                        THEN 429 ELSE 0,
                             !.ran = FALSE]]
    /\ UNCHANGED <<now, files, keys, events, rot, nextMat, held, authVars, rateVars, mw, rot2, kmu, config>>

\* the middleware as it would be if an error of the storage blocked the
\* request
GinRateLimitCheckFailClosed(c) ==
    /\ reqs[c].pc = "idle"
    /\ calls[c].pc = "done"
    /\ reqs' = [reqs EXCEPT ![c] =
                   IF calls[c].err \/ calls[c].ret > effectiveLimit
                   THEN [@ EXCEPT !.pc = "replied", !.n = @ + 1, !.count = calls[c].ret,
                                  !.failed = calls[c].err, !.status = 429, !.ran = FALSE]
                   ELSE [@ EXCEPT !.pc = "next", !.n = @ + 1, !.count = calls[c].ret,
                                  !.failed = FALSE, !.status = 0, !.ran = FALSE]]
    /\ UNCHANGED <<now, files, keys, events, rot, nextMat, held, authVars, rateVars, mw, rot2, kmu, config>>

\* GinRateLimit / GinRateLimitWithOptions after storage.Increment returned:
\* on an error of the storage c.Next(); over the effective limit
\* handleRateLimitExceeded (429, c.Abort()); else on to the handler
GinRateLimitCheck(c) ==
    /\ reqs[c].pc = "idle"
    /\ calls[c].pc = "done"
    /\ reqs' = [reqs EXCEPT ![c] =
                   IF calls[c].err
                   THEN [@ EXCEPT !.pc = "next", !.n = @ + 1, !.count = 0,
                                  !.failed = TRUE, !.status = 0, !.ran = FALSE]
                   ELSE IF calls[c].ret > effectiveLimit
                   THEN [@ EXCEPT !.pc = "replied", !.n = @ + 1, !.count = calls[c].ret,
                                  !.failed = FALSE, !.status = 429, !.ran = FALSE]
                   ELSE [@ EXCEPT !.pc = "next", !.n = @ + 1, !.count = calls[c].ret,
                                  !.failed = FALSE, !.status = 0, !.ran = FALSE]]
    /\ UNCHANGED <<now, files, keys, events, rot, nextMat, held, authVars, rateVars, mw, rot2, kmu, config>>

\* c.Next(): GinLogin calls Login and answers with its result
GinLogin(c) ==
    /\ reqs[c].pc = "next"
    /\ LoginBody
    /\ reqs' = [reqs EXCEPT ![c].pc = "handled", ![c].ran = TRUE,
                            ![c].status = IF reqs[c].status = 0
                                          THEN StatusCode(resp'.err) ELSE @]
    /\ UNCHANGED <<now, files, keys, events, rot, nextMat, users, rateVars, mw, rot2, kmu, config>>

\* the middleware after c.Next() returned: with SkipSuccessfulRequests the
\* counter is reset unless the status is 5xx (storage.Reset: delete under the
\* mutex, or DEL)
GinRateLimitAfter(c) ==
    /\ reqs[c].pc = "handled"
    /\ reqs' = [reqs EXCEPT ![c].pc = "replied"]
    /\ IF mw.SkipSuccessfulRequests /\ ~reqs[c].failed /\ reqs[c].status < 500
       THEN /\ storage = "memory" => mu = 0
            /\ store' = Delete(store, RateKey)
       ELSE UNCHANGED store
    /\ UNCHANGED <<now, files, keys, events, rot, nextMat, held, authVars, storage, mu, calls, mw, rot2, kmu, config>>

\* the client has its answer and may send its next request
Return(c) ==
    /\ reqs[c].pc = "replied"
    /\ reqs[c].n < MaxRequests
    /\ reqs' = [reqs EXCEPT ![c].pc = "idle"]
    /\ calls' = [calls EXCEPT ![c] = NoCall]
    /\ UNCHANGED <<now, files, keys, events, rot, nextMat, held, authVars, storage, store, mu, mw, rot2, kmu, config>>

-----------------------------------------------------------------------------
(* Specifications *)

Init ==
    /\ now = 0
    /\ files = <<>>
    /\ keys = loadExistingKeys(<<>>)
    /\ events = 0
    /\ rot = Idle
    /\ nextMat = 1
    /\ held = {}
    /\ users = [u \in Users |-> GoodUser]
    /\ sessions = EmptyMap
    /\ nextSid = 1
    /\ resp = NoResp
    /\ storage = "memory"
    /\ store = EmptyMap
    /\ mu = 0
    /\ calls = [c \in Clients |-> NoCall]
    /\ mw = DefaultRateLimitConfig
    /\ reqs = [c \in Clients |-> NoRequest]
    /\ rot2 = Idle
    /\ kmu = "none"
    /\ config = DefaultConfig

\* the key manager alone in its directory
Next ==
    \/ RotateCreate
    \/ RotateWrite
    \/ RotateInsert
    \/ CleanupList
    \/ CleanupRemove
    \/ watchFiles
    \/ Tick

Spec == Init /\ [][Next]_vars

\* the key manager in a directory other programs write to, started late in
\* the period the clock covers
InitDir ==
    /\ now = MaxNow - DirTicks
    /\ files = <<>>
    /\ keys = loadExistingKeys(<<>>)
    /\ events = 0
    /\ rot = Idle
    /\ nextMat = 1
    /\ held = {}
    /\ users = [u \in Users |-> GoodUser]
    /\ sessions = EmptyMap
    /\ nextSid = 1
    /\ resp = NoResp
    /\ storage = "memory"
    /\ store = EmptyMap
    /\ mu = 0
    /\ calls = [c \in Clients |-> NoCall]
    /\ mw = DefaultRateLimitConfig
    /\ reqs = [c \in Clients |-> NoRequest]
    /\ rot2 = Idle
    /\ kmu = "none"
    /\ config = DefaultConfig

NextDir == Next \/ ForeignWrite

SpecDir == InitDir /\ [][NextDir]_vars

\* the key manager with its watcher, and a caller of the codec
NextTok == Next \/ Issue

SpecTok == Init /\ [][NextTok]_vars

\* the auth service, its key manager and a client, within one tick of the clock
NextAuth ==
    \/ RotateCreate
    \/ RotateWrite
    \/ RotateInsert
    \/ CleanupList
    \/ watchFiles
    \/ Login
    \/ RefreshToken
    \/ RevokeRefreshToken
    \/ GinAuthenticate

SpecAuth == Init /\ [][NextAuth]_vars

\* the auth service with password changes and with callers that present
\* tokens they have tampered with
NextSess ==
    \/ RotateCreate
    \/ RotateWrite
    \/ RotateInsert
    \/ CleanupList
    \/ watchFiles
    \/ Login
    \/ \E u \in Users \cup {"nobody"} : ChangePassword(u)
    \/ GinAuthenticateTampered

SpecSess == Init /\ [][NextSess]_vars

\* the rate limiter on either storage, NumClients goroutines calling
\* Increment once each on a key not counted before
InitRate ==
    /\ now = 0
    /\ files = <<>>
    /\ keys = loadExistingKeys(<<>>)
    /\ events = 0
    /\ rot = Idle
    /\ nextMat = 1
    /\ held = {}
    /\ users = [u \in Users |-> GoodUser]
    /\ sessions = EmptyMap
    /\ nextSid = 1
    /\ resp = NoResp
    /\ storage \in {"memory", "redis"}
    /\ store = EmptyMap
    /\ mu = 0
    /\ calls = [c \in Clients |-> NoCall]
    /\ mw = DefaultRateLimitConfig
    /\ reqs = [c \in Clients |-> NoRequest]
    /\ rot2 = Idle
    /\ kmu = "none"
    /\ config = DefaultConfig

NextRate ==
    \/ \E c \in Clients :
          \/ MemIncrementLock(c)
          \/ MemIncrementLoad(c)
          \/ MemIncrementStore(c)
          \/ MemIncrementUnlock(c)
          \/ RedisIncrement(c)
    \/ cleanup
    \/ Tick

SpecRate == InitRate /\ [][NextRate]_vars

\* The session table some days into the life of a deployment: session 1 of
\* USR1 was created by a login SessionValidHours before its expiry e, with the
\* key of that time still the only key; the client holds the refresh token of
\* that login, issued for the jwt_refresh_token_expiry_hours of the
\* deployment: the default, a shorter or a longer time.
InitLedger ==
    \E e \in 1..LedgerExpiry, active \in BOOLEAN, cfg \in Configs :
        LET created == e - SessionValidHours * TicksPerHour
            ttl     == cfg.RefreshTokenExpiryHour IN
        /\ now = 0
        /\ files = <<[name |-> KeyFileName(created), content |-> 1]>>
        /\ keys = loadExistingKeys(files)
        /\ events = 0
        /\ rot = Idle
        /\ nextMat = 2
        /\ held = {[kid |-> created, sig |-> 1, alg |-> "RS256",
                    typ |-> "refresh_token", uid |-> "USR1", sid |-> 1,
                    iat |-> created, exp |-> created + ttl * TicksPerHour,
                    iss |-> Issuer]}
        /\ users = [u \in Users |-> GoodUser]
        /\ sessions = Put(EmptyMap, 1,
                          [user_id |-> "USR1", is_active |-> active,
                           created_at |-> created, last_used_at |-> created,
                           expires_at |-> e])
        /\ nextSid = 2
        /\ resp = NoResp
        /\ storage = "memory"
        /\ store = EmptyMap
        /\ mu = 0
        /\ calls = [c \in Clients |-> NoCall]
        /\ mw = DefaultRateLimitConfig
        /\ reqs = [c \in Clients |-> NoRequest]
        /\ rot2 = Idle
        /\ kmu = "none"
        /\ config = cfg

NextLedger ==
    \/ Login
    \/ RefreshToken
    \/ RevokeRefreshToken
    \/ cleanupOldSessions
    \/ Tick

SpecLedger == InitLedger /\ [][NextLedger]_vars

\* JWTUtils.DecryptClaims over a key store that is empty or holds the key
\* of ID 0, given one token of any shape
InitCodec ==
    /\ now = 0
    /\ files \in {<<>>, <<[name |-> KeyFileName(0), content |-> 1]>>}
    /\ keys = loadExistingKeys(files)
    /\ events = 0
    /\ rot = Idle
    /\ nextMat = 2
    /\ held \in {{t} : t \in ParsedTokens}
    /\ users = [u \in Users |-> GoodUser]
    /\ sessions = EmptyMap
    /\ nextSid = 1
    /\ resp = NoResp
    /\ storage = "memory"
    /\ store = EmptyMap
    /\ mu = 0
    /\ calls = [c \in Clients |-> NoCall]
    /\ mw = DefaultRateLimitConfig
    /\ reqs = [c \in Clients |-> NoRequest]
    /\ rot2 = Idle
    /\ kmu = "none"
    /\ config = DefaultConfig

NextCodec ==
    \/ Verify
    \/ Tick

SpecCodec == InitCodec /\ [][NextCodec]_vars

\* the auth service given one token signed by its key, of any token_type,
\* with session 1 of USR1 in the table
InitTypes ==
    /\ now = 0
    /\ files = <<[name |-> KeyFileName(0), content |-> 1]>>
    /\ keys = loadExistingKeys(files)
    /\ events = 0
    /\ rot = Idle
    /\ nextMat = 2
    /\ held \in {{t} : t \in TypedTokens}
    /\ users = [u \in Users |-> GoodUser]
    /\ sessions = Put(EmptyMap, 1, NewSessionRow("USR1"))
    /\ nextSid = 2
    /\ resp = NoResp
    /\ storage = "memory"
    /\ store = EmptyMap
    /\ mu = 0
    /\ calls = [c \in Clients |-> NoCall]
    /\ mw = DefaultRateLimitConfig
    /\ reqs = [c \in Clients |-> NoRequest]
    /\ rot2 = Idle
    /\ kmu = "none"
    /\ config = DefaultConfig

NextTypes ==
    \/ RefreshToken
    \/ ResetPassword
    \/ Tick

SpecTypes == InitTypes /\ [][NextTypes]_vars

\* the rows the table users can hold for a user
UserStates == [is_active : BOOLEAN, is_disabled : BOOLEAN, email_verified : BOOLEAN]

\* The auth service some time after USR1 logged in: session 1 and its refresh
\* token are those of that login; the row of USR1 has since been updated or
\* deleted by whoever administers the table users.
InitUsers ==
    \E u \in UserStates, deleted \in BOOLEAN :
        /\ now = 0
        /\ files = <<[name |-> KeyFileName(0), content |-> 1]>>
        /\ keys = loadExistingKeys(files)
        /\ events = 0
        /\ rot = Idle
        /\ nextMat = 2
        /\ held = {SignedToken(0, [typ |-> "refresh_token", uid |-> "USR1", sid |-> 1],
                               RefreshTokenExpiryHour)}
        /\ users = IF deleted THEN [x \in Users \ {"USR1"} |-> GoodUser]
                   ELSE [x \in Users |-> IF x = "USR1" THEN u ELSE GoodUser]
        /\ sessions = Put(EmptyMap, 1, NewSessionRow("USR1"))
        /\ nextSid = 2
        /\ resp = NoResp
        /\ storage = "memory"
        /\ store = EmptyMap
        /\ mu = 0
        /\ calls = [c \in Clients |-> NoCall]
        /\ mw = DefaultRateLimitConfig
        /\ reqs = [c \in Clients |-> NoRequest]
        /\ rot2 = Idle
        /\ kmu = "none"
        /\ config = DefaultConfig

NextUsers ==
    \/ Login
    \/ RefreshToken
    \/ Tick

SpecUsers == InitUsers /\ [][NextUsers]_vars

\* JWKKeyRotationJob.RotateKey builds a key manager of its own for the run
\* and drops it afterwards: the key that RotateKey stores under km.mu goes
\* into the map of that manager, not into keys, the map of the manager that
\* signs and verifies
JobRotateInsert ==
    /\ rot.pc = "insert"
    /\ rot' = [rot EXCEPT !.pc = "cleanup"]
    /\ UNCHANGED <<now, files, keys, events, nextMat, held, authVars, rateVars, gateVars, rot2, kmu, config>>

\* CleanupExpiredKeys of the job's key manager: it deletes from the map of
\* that manager and removes the files; the Remove events reach the watcher
\* of the other manager, which reloads on Create and Write only
JobCleanupRemove ==
    /\ rot.pc = "remove"
    /\ files' = SelectSeq(files, LAMBDA f : f.name \notin ToRemove(rot.list))
    /\ rot' = Idle
    /\ UNCHANGED <<now, keys, events, nextMat, held, authVars, rateVars, gateVars, rot2, kmu, config>>

\* the keys directory with n key files, written one a tick before the start
KeysDirOf(n) == [i \in 1..n |-> [name |-> KeyFileName(i - n - 1), content |-> i]]

\* A key manager that signs and verifies, started on a keys directory that
\* holds MaxValidJWKKeys key files or one less, and the scheduled rotation
\* job working on the same directory with its own key manager
InitShared ==
    \E n \in {MaxValidJWKKeys - 1, MaxValidJWKKeys} :
        /\ now = 0
        /\ files = KeysDirOf(n)
        /\ keys = loadExistingKeys(files)
        /\ events = 0
        /\ rot = Idle
        /\ nextMat = MaxValidJWKKeys + 1
        /\ held = {}
        /\ users = [u \in Users |-> GoodUser]
        /\ sessions = EmptyMap
        /\ nextSid = 1
        /\ resp = NoResp
        /\ storage = "memory"
        /\ store = EmptyMap
        /\ mu = 0
        /\ calls = [c \in Clients |-> NoCall]
        /\ mw = DefaultRateLimitConfig
        /\ reqs = [c \in Clients |-> NoRequest]
        /\ rot2 = Idle
        /\ kmu = "none"
        /\ config = DefaultConfig

NextShared ==
    \/ RotateCreate
    \/ RotateWrite
    \/ JobRotateInsert
    \/ CleanupList
    \/ JobCleanupRemove
    \/ watchFiles
    \/ Issue
    \/ Tick

SpecShared == InitShared /\ [][NextShared]_vars

\* the key manager with the write lock km.mu taken and released in steps
NextLock ==
    \/ RotateCreate
    \/ RotateWrite
    \/ KmRotateInsert
    \/ CleanupList
    \/ KmCleanupLock
    \/ KmCleanupRemove
    \/ KmWatchLock
    \/ KmWatchLoad
    \/ Tick

SpecLock == Init /\ [][NextLock]_vars

\* the key manager with two goroutines that may call RotateKey
NextConc ==
    \/ Next
    \/ Rotate2Create
    \/ Rotate2Write
    \/ Rotate2Insert
    \/ Cleanup2List
    \/ Cleanup2Remove

SpecConc == Init /\ [][NextConc]_vars

\* the auth routes behind the rate limit middleware: any policy, either
\* storage, a key store loaded at start with one key or none
InitGate ==
    /\ now = 0
    /\ files \in {<<>>, <<[name |-> KeyFileName(0), content |-> 1]>>}
    /\ keys = loadExistingKeys(files)
    /\ events = 0
    /\ rot = Idle
    /\ nextMat = 2
    /\ held = {}
    /\ users = [u \in Users |-> GoodUser]
    /\ sessions = EmptyMap
    /\ nextSid = 1
    /\ resp = NoResp
    /\ storage \in {"memory", "redis"}
    /\ store = EmptyMap
    /\ mu = 0
    /\ calls = [c \in Clients |-> NoCall]
    /\ mw \in Middlewares
    /\ reqs = [c \in Clients |-> NoRequest]
    /\ rot2 = Idle
    /\ kmu = "none"
    /\ config = DefaultConfig

NextGate ==
    \/ \E c \in GateClients :
          \/ MemIncrementLock(c)
          \/ MemIncrementLoad(c)
          \/ MemIncrementStore(c)
          \/ MemIncrementUnlock(c)
          \/ RedisIncrement(c)
          \/ GinRateLimitCheck(c)
          \/ GinLogin(c)
          \/ GinRateLimitAfter(c)
          \/ Return(c)

SpecGate == InitGate /\ [][NextGate]_vars

-----------------------------------------------------------------------------
(* Properties of the key manager *)

\* no RotateKey is between creating its key file and storing the key
RotateDone == rot.pc \notin {"write", "insert"}

CleanupCompletes == (CleanupList \/ CleanupRemove) /\ rot'.pc = "idle"

C6_CleanupKeepsActiveKey ==
    [][CleanupRemove =>
          \A k \in GetActiveKey :
             /\ k \in DOMAIN keys'
             /\ \E i \in 1..Len(files') : files'[i].name = KeyFileName(k)]_vars

-----------------------------------------------------------------------------
(* Properties of the codec *)

\* the key file of kid is in the keys directory: cleanup has not removed it
OnDisk(kid) == \E i \in 1..Len(files) : files[i].name = KeyFileName(kid)

\* the store still holds, under the token's kid, the key that signed it
SigningKeyKept(t) == GetKeyByID(t.kid).ok /\ GetKeyByID(t.kid).key.mat = t.sig

\* C2: a token issued under key k still verifies after later rotations while
\* it is unexpired and cleanup has not evicted k
C2_RotationKeepsTokens ==
    \A t \in held : (now < t.exp /\ OnDisk(t.kid)) => DecryptClaims(t).err = "none"

TokenTypes == {"auth_token", "refresh_token", "reset_password"}

ExpiryHours == {AccessTokenExpiryHour, RefreshTokenExpiryHour, ResetTokenExpiryHour}

C9_ExpiryWhateverRotations ==
    \A t \in held :
       /\ now < t.exp => DecryptClaims(t).err = "none"
       /\ now > t.exp => DecryptClaims(t).err = "token is expired"

\* C9 amended: before its expiry a token verifies exactly when the store
\* still holds the key that signed it; from its expiry on it is rejected, as
\* expired when that key is still held
C9_ExpiryWhileKeyKept ==
    \A t \in held :
       /\ now < t.exp => (DecryptClaims(t).err = "none" <=> SigningKeyKept(t))
       /\ now >= t.exp => DecryptClaims(t).err # "none"
       /\ (now >= t.exp /\ SigningKeyKept(t)) => DecryptClaims(t).err = "token is expired"

\* C9: an access token at its expiry, a later key in the store, the signing
\* key still held: the token is rejected as expired
C9_Witness ==
    \E t \in held :
       /\ t.typ = "auth_token" /\ now = t.exp
       /\ \E k \in DOMAIN keys : k > t.kid
       /\ SigningKeyKept(t)
       /\ DecryptClaims(t).err = "token is expired"

-----------------------------------------------------------------------------
(* Properties of the auth service and the middleware *)

\* C3: a refresh that finds its session revoked fails and issues no access
\* token
C3_RevokeIsTerminal ==
    (resp.op = "refresh" /\ resp.row # NoRow /\ ~resp.row.is_active)
       => (resp.err # "none" /\ resp.out = {})

\* C4: GinAuthenticate rejects a refresh token and does not call the
\* protected handler
C4_RefreshTokenRejected ==
    (resp.op = "authenticate" /\ resp.typ = "refresh_token")
       => (resp.err # "none" /\ ~resp.next)

\* C7: with no active key in the store EncryptClaims returns an error and no
\* token, and a Login or RefreshToken then returns an error, hands out no
\* token and creates no session
C7_NoActiveKeyFailsClosed ==
    [][GetActiveKey = {} =>
          /\ \A uid \in Users :
                \A r \in GenerateAccessToken(uid) \cup GenerateRefreshToken(nextSid, uid) :
                   r.err # "none" /\ r.token = NoToken
          /\ (Login \/ RefreshToken) =>
                /\ resp'.err # "none" /\ resp'.out = {}
                /\ held' = held /\ sessions' = sessions]_vars

\* C7: a login with good credentials has failed for want of a signing key
C7_Witness ==
    /\ resp.op = "login" /\ resp.err = "failed to generate access token"
    /\ GetActiveKey = {}
    /\ sessions = EmptyMap /\ held = {}

-----------------------------------------------------------------------------
(* Properties of the rate limiter *)

\* every call of Increment has returned, none with an error
AllReturned == \A c \in Clients : calls[c].pc = "done" /\ ~calls[c].err

\* the calls, and the present, lie within one window of each other
InOneWindow ==
    /\ \A c, d \in Clients : calls[c].at - calls[d].at < Window
    /\ \A c \in Clients : now - calls[c].at < Window

\* C10: NumClients concurrent calls of Increment on a fresh key within one
\* window return the values 1..NumClients, each once, and leave the count at
\* NumClients, on either storage
C10_ConcurrentIncrements ==
    (AllReturned /\ InOneWindow) =>
       /\ {calls[c].ret : c \in Clients} = 1..NumClients
       /\ RateKey \in DOMAIN store
       /\ store[RateKey].count = NumClients

\* C10: the calls on the in-memory storage have returned within one window,
\* not all in the same tick, and the count is NumClients
C10_Witness ==
    /\ storage = "memory"
    /\ AllReturned /\ InOneWindow
    /\ \E c, d \in Clients : calls[c].at # calls[d].at
    /\ store[RateKey].count = NumClients

-----------------------------------------------------------------------------
(* Properties of the rate limit middleware *)

\* the requests the middleware has judged
Judged == {c \in GateClients : reqs[c].pc # "idle"}

\* base limit L and burst allowance B of the route
BaseLimit == IF mw.route = "config" THEN mw.MaxAttempts ELSE mw.Limit

BurstAllowance ==
    IF mw.route = "options" /\ mw.OptBurstSize > 0 THEN mw.OptBurstSize ELSE mw.BurstSize

\* C11: with base limit L and burst allowance B, a request the storage counted
\* as the k-th on its key is denied with 429 iff k > L + B and goes on to the
\* handler otherwise, for GinRateLimit and for GinRateLimitWithOptions
C11_EffectiveLimit ==
    \A c \in Judged :
        ~reqs[c].failed =>
            /\ reqs[c].status = 429 <=> reqs[c].count > BaseLimit + BurstAllowance
            /\ reqs[c].status # 429 => reqs[c].pc = "next" \/ reqs[c].ran

\* with a burst allowance, one request is let through as number L + B while
\* another is denied as number L + B + 1
C11_Witness ==
    /\ BurstAllowance > 0
    /\ \E c, d \in Judged :
          /\ ~reqs[c].failed /\ reqs[c].count = BaseLimit + BurstAllowance
          /\ reqs[c].ran
          /\ ~reqs[d].failed /\ reqs[d].count = BaseLimit + BurstAllowance + 1
          /\ reqs[d].status = 429

\* C12: a request whose Increment returned an error is passed to the next
\* handler and is never answered with 429
C12_FailOpen ==
    \A c \in Judged :
        reqs[c].failed =>
            /\ reqs[c].status # 429
            /\ reqs[c].pc = "next" \/ reqs[c].ran

\* the storage failed, and the login behind the middleware succeeded
C12_Witness ==
    \E c \in Judged : reqs[c].failed /\ reqs[c].ran /\ reqs[c].status = 200

\* C17: a request the rate limiter denies never reaches the handler, and
\* tokens and sessions change only in a step of a request that the rate
\* limiter has let through
C17_DeniedNeverRuns ==
    [][/\ \A c \in GateClients : reqs'[c].status = 429 => ~reqs'[c].ran
       /\ (held' # held \/ sessions' # sessions \/ nextSid' # nextSid) =>
             \E c \in GateClients :
                 /\ reqs[c].pc = "next" /\ reqs[c].status # 429
                 /\ reqs'[c].ran]_vars

\* one request was denied after another one had logged in and got its tokens
C17_Witness ==
    \E c, d \in Judged :
        /\ reqs[c].status = 429 /\ reqs[c].pc = "replied" /\ ~reqs[c].ran
        /\ reqs[d].status = 200 /\ held # {} /\ sessions # EmptyMap

\* C19 as the specification states it: with SkipSuccessfulRequests, the
\* middleware leaves the counter as it is after a request whose handler
\* failed (status 4xx or 5xx)
C19_FailedRequestStaysCounted ==
    [][\A c \in GateClients :
          /\ mw.SkipSuccessfulRequests
          /\ reqs[c].pc = "handled" /\ reqs'[c].pc = "replied"
          /\ reqs[c].status >= 400
          => store' = store]_vars

\* C18 as the specification states it: an increment that adds to the count of
\* a key leaves the expiry of the key where the first increment of the window
\* put it, on either storage
C18_WindowAnchoredToFirstIncrement ==
    [][/\ RateKey \in DOMAIN store
       /\ RateKey \in DOMAIN store'
       /\ store'[RateKey].count = store[RateKey].count + 1
       => store'[RateKey].expiresAt = store[RateKey].expiresAt]_vars
-----------------------------------------------------------------------------
(* Properties of the session table *)

\* C13 as the specification states it: a session read from the table with
\* RevokedAt set is not active, and a step that revokes a session sets its
\* RevokedAt as it clears IsActive
C13_RevokeSetsBoth ==
    [][\A sid \in DOMAIN sessions :
          /\ convertSqlcSession(sid).RevokedAt # NoTime => ~convertSqlcSession(sid).IsActive
          /\ sessions[sid].is_active /\ ~sessions'[sid].is_active
             => convertSqlcSession(sid)'.RevokedAt # NoTime]_vars

\* C14 as the specification states it: after a successful ChangePassword of
\* user u, no session of u is active
C14_PasswordChangeRevokesAll ==
    [][\A u \in Users :
          ChangePassword(u) /\ resp'.err = "none"
          => \A sid \in DOMAIN sessions' :
                sessions'[sid].user_id = u => ~sessions'[sid].is_active]_vars

\* C15 as the specification states it: the refresh token a successful login
\* returned names a session that is in the table
C15_LoginNeedsSessionRow ==
    resp.op = "login" /\ resp.err = "none"
    => \A t \in resp.out : t.sid # NoSession => t.sid \in DOMAIN sessions
-----------------------------------------------------------------------------
(* Properties of the rejection of bad tokens *)

\* what the caller of POST /auth/refresh-token sees for token t when the
\* token is refused: the error of ValidateRefreshToken and its status code
RefreshRejection(t) ==
    [err |-> ValidateRefreshToken(t).err, status |-> StatusCode(ValidateRefreshToken(t).err)]

\* C16: whatever made a token bad (unknown key id, forged signature, wrong
\* issuer, no JWT at all), GinAuthenticate answers with the same status and
\* message and calls no handler, and the refresh flow returns the same error
C16_UniformRejection ==
    \A t \in held :
        \A b1, b2 \in Tampered(t) :
            /\ DecryptClaims(b1).err # "none"
            /\ GinAuthenticateReply(b1) = GinAuthenticateReply(b2)
            /\ ~GinAuthenticateReply(b1).next
            /\ RefreshRejection(b1) = RefreshRejection(b2)
            /\ RefreshRejection(b1).status = 401

\* the codec refuses the four tokens for four different reasons, and a request
\* with one of them has been refused
C16_Witness ==
    /\ \E t \in held :
          /\ DecryptClaims(t).err = "none"
          /\ DecryptClaims(UnknownKeyID(t)).err = "invalid key ID"
          /\ DecryptClaims(ForgedSignature(t)).err = "signature is invalid"
          /\ DecryptClaims(WrongIssuer(t)).err = "invalid token issuer"
          /\ DecryptClaims(Malformed(t)).err = "unexpected signing method"
    /\ resp.op = "authenticate" /\ resp.err = "Invalid or expired token"
-----------------------------------------------------------------------------
(* Properties of concurrent rotations *)

\* a call of RotateKey between the creation of its key file and the insertion
\* of its key into the map
Rotating(r) == r.pc \in {"write", "insert"}

\* C20 as the specification states it: only one rotation proceeds at a time,
\* a second trigger does not write or store a key while the first is under way
C20_OneRotationAtATime == ~(Rotating(rot) /\ Rotating(rot2))
-----------------------------------------------------------------------------
(* Properties of key IDs and key files *)

\* C21 as the specification states it: the key a rotation stores has a key ID
\* no other key of the store has (the watcher may have loaded the new key
\* itself from its file already), so the rotation leaves every key of the
\* store under its ID with its material
C21_KeyIDsUnique ==
    [][RotateInsert =>
          \A k \in DOMAIN keys :
              k \in DOMAIN keys' /\ keys'[k].mat = keys[k].mat]_vars

\* C22 as the specification states it: no state shows a reader of the keys
\* directory a key file that is not completely written
C22_NoPartialKeyFile ==
    \A i \in 1..Len(files) :
        HasKeySuffix(files[i].name) => files[i].content # Partial

\* C23 as the specification states it: a reload of the watcher keeps in the
\* store every key that was in it and has its key file in the keys
\* directory, so a lookup of such a key never fails after the reload
C23_ReloadKeepsKeysOnDisk ==
    [][watchFiles =>
          \A k \in DOMAIN keys : OnDisk(k) => GetKeyByID(k)'.ok]_vars

\* C24 as the specification states it: a step that writes or removes a file
\* of the keys directory, or reads the directory for a reload, is taken with
\* km.mu not held for writing
C24_NoLockAcrossIO ==
    [][(files' # files \/ KmWatchLoad) => kmu = "none"]_vars
-----------------------------------------------------------------------------
(* Properties of evicted keys *)

\* the errors of DecryptClaims that say the token is invalid, not expired
InvalidTokenErrors ==
    {"unexpected signing method", "invalid key ID", "signature is invalid",
     "invalid token issuer"}

-----------------------------------------------------------------------------
(* Properties of the key discovery document *)

-----------------------------------------------------------------------------
(* Properties of the session table in time *)

\* C27: a refresh whose token names a session that is not in the table, or a
\* session past its ValidTill, active or not, returns an error, issues no
\* access token and writes nothing
C27_MissingOrExpiredDenied ==
    [][(RefreshToken /\ (resp'.row = NoRow \/ now > resp'.row.expires_at))
          => /\ resp'.err # "none" /\ resp'.out = {}
             /\ held' = held /\ sessions' = sessions]_vars

\* a refresh token still good as a token was refused because its session,
\* still active, is past its ValidTill
C27_Witness ==
    /\ resp.op = "refresh" /\ resp.err = "refresh token expired"
    /\ resp.row.is_active
    /\ now > resp.row.expires_at

\* C28: a successful refresh sets last_used_at of its session to the present
\* and changes nothing else in the table: no other field of the session, no
\* other session
C28_TouchSetsLastUsedOnly ==
    [][(RefreshToken /\ resp'.err = "none")
          => \E sid \in DOMAIN sessions :
                /\ resp'.row = sessions[sid]
                /\ sessions'[sid].last_used_at = now
                /\ sessions' = [sessions EXCEPT ![sid].last_used_at = now]]_vars

\* a revoked session has been refreshed (C3) at a later time: it is still
\* revoked and its last_used_at is that time
C28_Witness ==
    /\ resp.op = "refresh" /\ resp.err = "none"
    /\ ~resp.row.is_active
    /\ \E sid \in DOMAIN sessions :
          /\ ~sessions[sid].is_active
          /\ sessions[sid].last_used_at = now
          /\ sessions[sid].last_used_at > sessions[sid].created_at + 1

\* C29 as the specification states it: the periodic job on sessions leaves
\* inactive exactly the sessions that were, plus those with
\* expires_at <= now
C29_SweepFlipsExpired ==
    [][cleanupOldSessions =>
          \A sid \in DOMAIN sessions :
              sessions'[sid].is_active =
                 (sessions[sid].is_active /\ ~(sessions[sid].expires_at <= now))]_vars

\* C30: RevokeRefreshToken changes the table as one DeactivateAuthSession of
\* one session does: that session is inactive, every other field and session
\* is as before, and revoking a session again changes nothing
C30_RevokeIdempotent ==
    [][RevokeRefreshToken =>
          \E sid \in DOMAIN sessions :
             /\ sessions' = [sessions EXCEPT ![sid].is_active = FALSE]
             /\ DeactivateAuthSession(sessions', sid) = sessions']_vars

\* a user has two sessions, one revoked and one still active
C30_Witness ==
    /\ resp.op = "revoke"
    /\ \E s1, s2 \in DOMAIN sessions :
          /\ sessions[s1].user_id = sessions[s2].user_id
          /\ ~sessions[s1].is_active
          /\ sessions[s2].is_active
-----------------------------------------------------------------------------
(* Properties of DecryptClaims on tokens of any shape *)

\* C31: DecryptClaims returns an error for every token whose iss claim is
\* absent or is not the configured issuer, also when its signature is the
\* one of the key its kid names and it has not expired
C31_ForeignIssuerRejected ==
    [][Verify => \A t \in held : t.iss # Issuer => resp'.err # "none"]_vars

\* a token signed by the key of the store, not expired, with the issuer of
\* another service, was refused for its issuer
C31_Witness ==
    /\ resp.op = "verify" /\ resp.err = "invalid token issuer"
    /\ \E t \in held : /\ t.iss = "someone-else"
                        /\ GetKeyByID(t.kid).ok /\ GetKeyByID(t.kid).key.mat = t.sig
                        /\ now < t.exp

\* C39: DecryptClaims refuses a token whose alg is not an RSA signing method
\* as "unexpected signing method" and, the method being RSA, a token without
\* a string kid as "missing key ID in token header": neither answer depends
\* on the key store or on the signature
C39_MethodAndKidBeforeKey ==
    [][Verify => \A t \in held :
          /\ t.alg \notin SigningMethodRSA => resp'.err = "unexpected signing method"
          /\ (t.alg \in SigningMethodRSA /\ t.kid = MissingKeyID)
                => resp'.err = "missing key ID in token header"]_vars

\* an HS256 token whose kid names a key of the store and whose signature
\* matches that key's material was refused for its method
C39_Witness ==
    /\ resp.op = "verify" /\ resp.err = "unexpected signing method"
    /\ \E t \in held : /\ t.alg = "HS256" /\ t.iss = Issuer /\ now < t.exp
                        /\ GetKeyByID(t.kid).ok /\ GetKeyByID(t.kid).key.mat = t.sig
-----------------------------------------------------------------------------
(* Properties of the cleanup pass of the in-memory storage *)

\* a call of Increment between its Lock and its Unlock finds in the map what
\* it has read or written: nothing has changed the map under it
UndisturbedIncrement(c) ==
    /\ calls[c].pc = "loaded" =>
          /\ calls[c].exists = (RateKey \in DOMAIN store)
          /\ calls[c].exists => calls[c].entry = store[RateKey]
    /\ calls[c].pc = "stored" =>
          /\ RateKey \in DOMAIN store
          /\ store[RateKey].count = calls[c].ret

\* C32: a pass of cleanup runs while no call of Increment holds the mutex,
\* deletes only entries past their expiresAt and changes no entry it leaves;
\* every call of Increment in its critical section is undisturbed, so the
\* count it returns is the count in the map
C32_CleanupUnderTheMutex ==
    /\ [](storage = "memory" => \A c \in Clients : UndisturbedIncrement(c))
    /\ [][cleanup =>
            /\ \A c \in Clients : calls[c].pc \notin {"locked", "loaded", "stored"}
            /\ \A k \in DOMAIN store \ DOMAIN store' : now > store[k].expiresAt
            /\ \A k \in DOMAIN store' : k \in DOMAIN store /\ store'[k] = store[k]]_vars

\* cleanup has deleted the expired entry of a call that returned, and the
\* next call of Increment holds the mutex over the empty map
C32_Witness ==
    /\ storage = "memory"
    /\ RateKey \notin DOMAIN store
    /\ \E c, d \in Clients :
          /\ calls[c].pc = "done" /\ calls[c].ret = 1
          /\ calls[d].pc = "loaded" /\ ~calls[d].exists
-----------------------------------------------------------------------------
(* Properties of the lifetime of a session *)

\* C33 as the specification states it: the session a login creates has
\* created_at = now and expires when the refresh token issued with it
\* expires, whatever jwt_refresh_token_expiry_hours is
C33_SessionLivesAsLongAsToken ==
    [][(Login /\ resp'.err = "none" /\ nextSid \in DOMAIN sessions')
          => /\ sessions'[nextSid].created_at = now
             /\ \A t \in held' : t.typ = "refresh_token"
                    => sessions'[nextSid].expires_at = t.exp]_vars
-----------------------------------------------------------------------------
(* Properties of the device fingerprint *)

\* C34 as the specification states it: a refresh from a device whose
\* fingerprint is not empty and is not the one of the login that created the
\* session is denied and issues no access token
C34_FingerprintMismatchDenied ==
    [][\A fp \in Fingerprints \ {"", LoginFingerprint} :
          RefreshTokenFrom(fp) => resp'.err # "none" /\ resp'.out = {}]_vars
-----------------------------------------------------------------------------
(* Properties of the token_type of a token *)

\* a token DecryptClaims accepts
Accepted(t) == DecryptClaims(t).err = "none"

\* C36: RefreshToken answers "invalid refresh token", and issues nothing, to
\* a token DecryptClaims accepts whose token_type is not refresh_token or
\* that has no session_id, whether or not the table has the session; and
\* ResetPassword answers an error to every token whose token_type is not
\* reset_password
C36_TokenTypeDecides ==
    [][/\ \A t \in held, fp \in Fingerprints :
            (/\ RefreshTokenOf(t, fp)
             /\ Accepted(t) /\ (t.typ # "refresh_token" \/ t.sid = NoSession))
               => /\ resp'.err = "invalid refresh token"
                  /\ resp'.out = {} /\ sessions' = sessions
       /\ (ResetPassword /\ resp'.typ # "reset_password") => resp'.err # "none"]_vars

\* a reset token that DecryptClaims accepts and that names a session of the
\* table was refused by RefreshToken as no refresh token
C36_Witness ==
    /\ resp.op = "refresh" /\ resp.err = "invalid refresh token"
    /\ \E t \in held : /\ t.typ = "reset_password" /\ Accepted(t)
                        /\ t.sid \in DOMAIN sessions
-----------------------------------------------------------------------------
(* Properties of a refresh that fails, and of users who may not sign in *)

\* C37: a RefreshToken that returns an error, whatever the error, leaves the
\* session table as it was, last_used_at included, and returns no access
\* token
C37_FailedRefreshWritesNothing ==
    [][(RefreshToken /\ resp'.err # "none")
          => sessions' = sessions /\ resp'.out = {} /\ held' = held]_vars

\* a refresh with a good token of an active session has failed because the
\* user is disabled, and the session still has the last_used_at of its login
C37_Witness ==
    /\ resp.op = "refresh" /\ resp.err = "invalid credentials"
    /\ resp.row.is_active
    /\ now > 0
    /\ \A sid \in DOMAIN sessions : sessions[sid].last_used_at = sessions[sid].created_at

\* user u is in the table, active, not disabled and verified
MaySignIn(u) ==
    /\ u \in DOMAIN users
    /\ users[u].is_active /\ ~users[u].is_disabled /\ users[u].email_verified

\* C38: Login and RefreshToken hand out tokens only for a user who is active,
\* not disabled and verified, a login creates a session only for such a
\* user, and a request that hands out no token returns an error
C38_NoTokenForBarredUser ==
    [][(Login \/ RefreshToken) =>
          /\ \A t \in resp'.out : MaySignIn(t.uid)
          /\ \A sid \in DOMAIN sessions' \ DOMAIN sessions : MaySignIn(sessions'[sid].user_id)
          /\ resp'.out = {} => resp'.err # "none"]_vars

\* the user of session 1 has been made inactive since the login, and a
\* refresh with the token of that login was refused
C38_Witness ==
    /\ resp.op = "refresh" /\ resp.err = "invalid credentials"
    /\ resp.row.is_active /\ resp.row.user_id \in DOMAIN users
    /\ ~users[resp.row.user_id].is_active
    /\ ~users[resp.row.user_id].is_disabled
    /\ users[resp.row.user_id].email_verified
-----------------------------------------------------------------------------
(* Properties of key managers that share a keys directory *)

\* C35 as the specification states it: when the rotation job has finished
\* and the watcher has handled every event, the key manager that signs and
\* verifies holds the keys of the directory, no more and no less, with the
\* same active key
C35_ManagersAgreeWithDirectory ==
    (rot.pc = "idle" /\ events = 0) => keys = loadExistingKeys(files)
====
